---- MODULE Spec2Model ----
(***************************************************************************)
(* Oosan River: the state evolution logic of the virtual salamander        *)
(* (createInitialState, getDaysDiff, processGrowth, processCondition,      *)
(* generateDailyLog) and the activation that composes it in App.tsx        *)
(* (loadState, initializeState, saveState).                                *)
(*                                                                         *)
(* Calendar dates are the 'YYYY-MM-DD' strings of the source; the model    *)
(* writes the date of day d as the number d, new Date(date).getTime() as   *)
(* d * MsPerDay and new Date().toISOString().split('T')[0] as              *)
(* now \div MsPerDay, where now is the clock in milliseconds.              *)
(*                                                                         *)
(* sizeFactor is a JavaScript number: a value of finite precision, every   *)
(* arithmetic result rounded to the nearest representable value (ties to   *)
(* even).  The model keeps that rounding at a reduced precision: a number  *)
(* is an integer count of units of 1/Scale.                                *)
(*                                                                         *)
(* The message strings of the source are Japanese; the model writes each   *)
(* as an English rendering, equal strings for equal messages.              *)
(***************************************************************************)
EXTENDS Integers, Sequences, FiniteSets, TLC

VARIABLES now, storage, pc, today, loadedState, updatedState, newLog, state,
          activations

vars == <<now, storage, pc, today, loadedState, updatedState, newLog, state,
          activations>>

(***************************************************************************)
(* Bounds of the model.                                                    *)
(***************************************************************************)
MaxDay == 8          \* the clock stops at the end of this day
MaxActivations == 3  \* the component is mounted at most this many times
RandomSteps == 8     \* Math.random() yields k / RandomSteps, k in 0..RandomSteps-1

(***************************************************************************)
(* Program constants.                                                      *)
(***************************************************************************)
MsPerDay == 86400000
HalfDay == MsPerDay \div 2
Scale == 1000
DeadDays == 7
WeakDays == 3

\* null / undefined: no record, no item, no date, no log
Null == <<>>
NoDate == -1
NoLog == ""

Conditions == {"healthy", "weak", "dead"}

INITIAL_LOG == "quietly at the bottom of the river"
DEAD_MESSAGE == "only the quiet flow of the river remains"
FIRST_DAY_MESSAGE == "found a new home"
WEAK_MESSAGES ==
    << "quietly passing the day again",
       "time is flowing slowly",
       "the sound of the river can be heard" >>
\* the healthy messages with a second message copied from the weak ones
HEALTHY_MESSAGES_TwoShared ==
    << "quietly passing the day again",
       "time is flowing slowly",
       "drifting with the flow of the river",
       "resting in the shade of a rock",
       "swimming among the water weeds" >>

HEALTHY_MESSAGES ==
    << "quietly passing the day again",
       "growing slowly",
       "drifting with the flow of the river",
       "resting in the shade of a rock",
       "swimming among the water weeds" >>

Range(s) == {s[i] : i \in 1..Len(s)}

Abs(x) == IF x < 0 THEN -x ELSE x

\* n / d rounded to the nearest integer, ties to even (n >= 0, d > 0)
RoundDiv(n, d) ==
    LET q == n \div d
        r == n % d
    IN  IF 2 * r < d THEN q
        ELSE IF 2 * r > d THEN q + 1
        ELSE IF q % 2 = 0 THEN q ELSE q + 1

\* the product of two numbers, rounded
Times(a, b) == RoundDiv(a * b, Scale)

\* the literal m / 1000 as a number
Literal(m) == RoundDiv(m * Scale, 1000)

\* new Date().toISOString().split('T')[0]
ToISODate(ms) == ms \div MsPerDay

\* new Date(date).getTime()
GetTime(date) == date * MsPerDay

Today == ToISODate(now)

\* getDaysDiff without Math.abs
getDaysDiff_Signed(date1, date2) ==
    LET d1 == GetTime(date1)
        d2 == GetTime(date2)
        diffTime == d2 - d1
    IN  diffTime \div MsPerDay

getDaysDiff(date1, date2) ==
    LET d1 == GetTime(date1)
        d2 == GetTime(date2)
        diffTime == Abs(d2 - d1)
    IN  diffTime \div MsPerDay

\* createInitialState that dates the last growth one day back
createInitialState_GrowthDue(tdy) ==
    [ startDate      |-> tdy,
      lastVisitDate  |-> tdy,
      lastGrowthDate |-> tdy - 1,
      sizeFactor     |-> Literal(1000),
      condition      |-> "healthy",
      latestLog      |-> INITIAL_LOG ]

createInitialState(tdy) ==
    [ startDate      |-> tdy,
      lastVisitDate  |-> tdy,
      lastGrowthDate |-> tdy,
      sizeFactor     |-> Literal(1000),
      condition      |-> "healthy",
      latestLog      |-> INITIAL_LOG ]

\* growthRate with the increment subtracted: 1.0 - (Math.random() * 0.002 + 0.001)
growthRate_Shrink(k) ==
    RoundDiv(Scale * (1000 * RandomSteps - (2 * k + RandomSteps)), 1000 * RandomSteps)

\* growthRate with a wider spread: 1.0 + (Math.random() * 0.003 + 0.001)
growthRate_Wide(k) ==
    RoundDiv(Scale * (1000 * RandomSteps + 3 * k + RandomSteps), 1000 * RandomSteps)

\* 1.0 + (Math.random() * 0.002 + 0.001), Math.random() = k / RandomSteps
growthRate(k) ==
    RoundDiv(Scale * (1000 * RandomSteps + 2 * k + RandomSteps), 1000 * RandomSteps)

\* processGrowth without the guard on lastGrowthDate
processGrowth_NoDayGuard(s, tdy, k) ==
    IF s.condition = "healthy"
    THEN [s EXCEPT !.sizeFactor = Times(s.sizeFactor, growthRate(k)),
                   !.lastGrowthDate = tdy]
    ELSE [s EXCEPT !.lastGrowthDate = tdy]

\* processGrowth where every condition but dead grows
processGrowth_WeakGrows(s, tdy, k) ==
    IF s.lastGrowthDate = tdy
    THEN s
    ELSE IF s.condition # "dead"
         THEN [s EXCEPT !.sizeFactor = Times(s.sizeFactor, growthRate(k)),
                        !.lastGrowthDate = tdy]
         ELSE [s EXCEPT !.lastGrowthDate = tdy]

\* processGrowth whose healthy branch does not record the day of the growth
processGrowth_KeepsDate(s, tdy, k) ==
    IF s.lastGrowthDate = tdy
    THEN s
    ELSE IF s.condition = "healthy"
         THEN [s EXCEPT !.sizeFactor = Times(s.sizeFactor, growthRate(k))]
         ELSE [s EXCEPT !.lastGrowthDate = tdy]

\* processGrowth that records the day only when it grows
processGrowth_DateOnlyOnGrowth(s, tdy, k) ==
    IF s.lastGrowthDate = tdy
    THEN s
    ELSE IF s.condition = "healthy"
         THEN [s EXCEPT !.sizeFactor = Times(s.sizeFactor, growthRate(k)),
                        !.lastGrowthDate = tdy]
         ELSE s

processGrowth(s, tdy, k) ==
    IF s.lastGrowthDate = tdy
    THEN s
    ELSE IF s.condition = "healthy"
         THEN [s EXCEPT !.sizeFactor = Times(s.sizeFactor, growthRate(k)),
                        !.lastGrowthDate = tdy]
         ELSE [s EXCEPT !.lastGrowthDate = tdy]

\* newCondition with the weak threshold excluded: daysSinceVisit > 3
newCondition_StrictWeak(daysSinceVisit) ==
    IF daysSinceVisit >= DeadDays THEN "dead"
    ELSE IF daysSinceVisit > WeakDays THEN "weak"
    ELSE "healthy"

newCondition(daysSinceVisit) ==
    IF daysSinceVisit >= DeadDays THEN "dead"
    ELSE IF daysSinceVisit >= WeakDays THEN "weak"
    ELSE "healthy"

\* processCondition that starts a dead pet anew on the day of the visit
processCondition_Restart(s, tdy) ==
    LET daysSinceVisit == getDaysDiff(s.lastVisitDate, tdy)
    IN  [s EXCEPT !.condition = newCondition(daysSinceVisit),
                  !.lastVisitDate = tdy,
                  !.startDate = IF s.condition = "dead" THEN tdy ELSE @]

processCondition(s, tdy) ==
    LET daysSinceVisit == getDaysDiff(s.lastVisitDate, tdy)
    IN  [s EXCEPT !.condition = newCondition(daysSinceVisit),
                  !.lastVisitDate = tdy]

\* messages[Math.floor(Math.random() * messages.length)], arrays from index 1
pick(messages, k) == messages[((k * Len(messages)) \div RandomSteps) + 1]

\* generateDailyLog without the first-day message
generateDailyLog_NoFirstDay(s, k) ==
    IF s.condition = "dead" THEN DEAD_MESSAGE
    ELSE IF s.condition = "weak" THEN pick(WEAK_MESSAGES, k)
    ELSE pick(HEALTHY_MESSAGES, k)

generateDailyLog(s, k) ==
    LET daysSinceStart == getDaysDiff(s.startDate, s.lastVisitDate)
    IN  IF s.condition = "dead" THEN DEAD_MESSAGE
        ELSE IF s.condition = "weak" THEN pick(WEAK_MESSAGES, k)
        ELSE IF daysSinceStart = 0 THEN FIRST_DAY_MESSAGE
        ELSE pick(HEALTHY_MESSAGES, k)

(***************************************************************************)
(* Persistence: AsyncStorage holds the JSON text of the record under       *)
(* STORAGE_KEY, or nothing.  The JSON text of an object is the sequence    *)
(* of its key/value pairs.                                                 *)
(***************************************************************************)
Keys == <<"startDate", "lastVisitDate", "lastGrowthDate",
          "sizeFactor", "condition", "latestLog">>

JSONstringify(s) == [i \in 1..Len(Keys) |-> <<Keys[i], s[Keys[i]]>>]

JSONparse(text) ==
    [key \in {text[i][1] : i \in 1..Len(text)} |->
        text[CHOOSE i \in 1..Len(text) : text[i][1] = key][2]]

\* JSON.parse throws a SyntaxError on a text that is cut off inside a pair
Parseable(text) == \A i \in 1..Len(text) : Len(text[i]) = 2

\* loadState: AsyncStorage.getItem rejects, or resolves to the stored text or
\* to null; a rejection and a SyntaxError are caught and logged
loadState(getItem) ==
    IF getItem = "rejected" THEN createInitialState(Today)
    ELSE IF storage # Null /\ Parseable(storage) THEN JSONparse(storage)
    ELSE createInitialState(Today)

(***************************************************************************)
(* The clock.  Between activations it advances by half a day, a day,       *)
(* WeakDays days or DeadDays days.  An activation lasts less than a day:   *)
(* while one is in progress the clock passes at most one midnight, which   *)
(* it can do between any two of its steps.                                 *)
(***************************************************************************)
Jumps == {HalfDay, MsPerDay, WeakDays * MsPerDay, DeadDays * MsPerDay}

Tick ==
    /\ pc = "idle"
    /\ \E j \in Jumps :
          /\ now + j <= MaxDay * MsPerDay + HalfDay
          /\ now' = now + j
    /\ UNCHANGED <<storage, pc, today, loadedState, updatedState, newLog, state,
                   activations>>

Midnight ==
    /\ pc # "idle"
    /\ now % MsPerDay # 0
    /\ now + HalfDay <= MaxDay * MsPerDay + HalfDay
    /\ now' = now + HalfDay
    /\ UNCHANGED <<storage, pc, today, loadedState, updatedState, newLog, state,
                   activations>>

(***************************************************************************)
(* One activation: the component mounts with state null and runs           *)
(* initializeState.                                                        *)
(***************************************************************************)
Mount ==
    /\ pc = "idle"
    /\ activations < MaxActivations
    /\ activations' = activations + 1
    /\ pc' = "loadState"
    /\ state' = Null
    /\ UNCHANGED <<now, storage, today, loadedState, updatedState, newLog>>

\* const loadedState = await loadState();
LoadState ==
    /\ pc = "loadState"
    /\ \E getItem \in {"resolved", "rejected"} :
          loadedState' = loadState(getItem)
    /\ pc' = "today"
    /\ UNCHANGED <<now, storage, today, updatedState, newLog, state, activations>>

\* const today = new Date().toISOString().split('T')[0];
ReadToday ==
    /\ pc = "today"
    /\ today' = Today
    /\ pc' = "processCondition"
    /\ UNCHANGED <<now, storage, loadedState, updatedState, newLog, state, activations>>

\* let updatedState = processCondition(loadedState);
ProcessCondition ==
    /\ pc = "processCondition"
    /\ updatedState' = processCondition(loadedState, Today)
    /\ pc' = "processGrowth"
    /\ UNCHANGED <<now, storage, today, loadedState, newLog, state, activations>>

\* updatedState = processGrowth(updatedState);
ProcessGrowth ==
    /\ pc = "processGrowth"
    /\ \E k \in 0..(RandomSteps - 1) :
          updatedState' = processGrowth(updatedState, Today, k)
    /\ pc' = "generateDailyLog"
    /\ UNCHANGED <<now, storage, today, loadedState, newLog, state, activations>>

\* const newLog = generateDailyLog(updatedState);
\* if (updatedState.lastVisitDate === today) updatedState.latestLog = newLog;
GenerateDailyLog ==
    /\ pc = "generateDailyLog"
    /\ \E k \in 0..(RandomSteps - 1) :
          newLog' = generateDailyLog(updatedState, k)
    /\ updatedState' = IF updatedState.lastVisitDate = today
                       THEN [updatedState EXCEPT !.latestLog = newLog']
                       ELSE updatedState
    /\ pc' = "setState"
    /\ UNCHANGED <<now, storage, today, loadedState, state, activations>>

\* setState(updatedState);
SetState ==
    /\ pc = "setState"
    /\ state' = updatedState
    /\ pc' = "saveState"
    /\ UNCHANGED <<now, storage, today, loadedState, updatedState, newLog,
                   activations>>

\* a saveState whose rejected setItem escapes and unmounts the component
SaveState_Aborts ==
    /\ pc = "saveState"
    /\ \E setItem \in {"resolved", "rejected"} :
          /\ storage' = IF setItem = "resolved"
                        THEN JSONstringify(updatedState)
                        ELSE storage
          /\ state' = IF setItem = "resolved" THEN state ELSE Null
    /\ pc' = "idle"
    /\ today' = NoDate
    /\ loadedState' = Null
    /\ updatedState' = Null
    /\ newLog' = NoLog
    /\ UNCHANGED <<now, activations>>

\* await saveState(updatedState): AsyncStorage.setItem resolves or rejects;
\* initializeState returns and its locals are gone
SaveState ==
    /\ pc = "saveState"
    /\ \E setItem \in {"resolved", "rejected"} :
          storage' = IF setItem = "resolved"
                     THEN JSONstringify(updatedState)
                     ELSE storage
    /\ pc' = "idle"
    /\ today' = NoDate
    /\ loadedState' = Null
    /\ updatedState' = Null
    /\ newLog' = NoLog
    /\ UNCHANGED <<now, state, activations>>

Init ==
    /\ now \in {0, HalfDay}
    /\ storage = Null
    /\ pc = "idle"
    /\ today = NoDate
    /\ loadedState = Null
    /\ updatedState = Null
    /\ newLog = NoLog
    /\ state = Null
    /\ activations = 0

Next ==
    \/ Tick
    \/ Midnight
    \/ Mount
    \/ LoadState
    \/ ReadToday
    \/ ProcessCondition
    \/ ProcessGrowth
    \/ GenerateDailyLog
    \/ SetState
    \/ SaveState

Spec == Init /\ [][Next]_vars

(***************************************************************************)
(* The unit tests of the logic functions: a test arranges an input record  *)
(* and a clock, applies one function to it and inspects the result.        *)
(* loadedState is the input, updatedState the returned record, newLog the  *)
(* returned log; a result can be fed back as the next input.               *)
(***************************************************************************)
TestDates == 0..MaxDay
TestStartDates == {0, 1, MaxDay}
TestSizes == {Literal(1000), Literal(1001), Literal(1500)}
TestClocks == {d * MsPerDay + h : d \in 0..MaxDay, h \in {0, HalfDay}}

TestStates ==
    [ startDate      : TestStartDates,
      lastVisitDate  : TestDates,
      lastGrowthDate : TestDates,
      sizeFactor     : TestSizes,
      condition      : Conditions,
      latestLog      : {"test"} ]

TestProcessCondition ==
    /\ pc = "test"
    /\ updatedState' = processCondition(loadedState, Today)
    /\ pc' = "conditionResult"
    /\ UNCHANGED <<now, storage, today, loadedState, newLog, state, activations>>

TestProcessGrowth ==
    /\ pc = "test"
    /\ \E k \in 0..(RandomSteps - 1) :
          updatedState' = processGrowth(loadedState, Today, k)
    /\ pc' = "growthResult"
    /\ UNCHANGED <<now, storage, today, loadedState, newLog, state, activations>>

\* const state = createInitialState();
TestCreateInitialState ==
    /\ pc = "test"
    /\ updatedState' = createInitialState(Today)
    /\ pc' = "created"
    /\ UNCHANGED <<now, storage, today, loadedState, newLog, state, activations>>

TestGenerateDailyLog ==
    /\ pc = "test"
    /\ \E k \in 0..(RandomSteps - 1) :
          newLog' = generateDailyLog(loadedState, k)
    /\ pc' = "logResult"
    /\ UNCHANGED <<now, storage, today, loadedState, updatedState, state,
                   activations>>

\* the returned record becomes the input of the next call
TestFeed ==
    /\ pc \in {"conditionResult", "growthResult"}
    /\ loadedState' = updatedState
    /\ updatedState' = Null
    /\ pc' = "test"
    /\ UNCHANGED <<now, storage, today, newLog, state, activations>>

InitTest ==
    /\ now \in TestClocks
    /\ loadedState \in TestStates
    /\ pc = "test"
    /\ storage = Null
    /\ today = NoDate
    /\ updatedState = Null
    /\ newLog = NoLog
    /\ state = Null
    /\ activations = 0

NextTest ==
    \/ TestCreateInitialState
    \/ TestProcessCondition
    \/ TestProcessGrowth
    \/ TestGenerateDailyLog
    \/ TestFeed

SpecTest == InitTest /\ [][NextTest]_vars

(***************************************************************************)
(* The tests of loadState / saveState: AsyncStorage is arranged to hold    *)
(* nothing, the text of a record, the text of an object that has only the  *)
(* first fields of a record, or a text cut off inside a pair; a test saves *)
(* the record loadedState, or loads, and inspects the returned record      *)
(* updatedState.                                                           *)
(***************************************************************************)
TestRecords ==
    {s \in TestStates :
        s.startDate = 0 /\ s.lastVisitDate = 1 /\ s.lastGrowthDate = 1}

FewerFields == {1, 3, 5}

CutOff(text, n) == SubSeq(text, 1, n) \o << <<text[n + 1][1]>> >>

StoredTexts ==
    {Null}
      \cup {JSONstringify(s) : s \in TestRecords}
      \cup {SubSeq(JSONstringify(s), 1, n) : s \in TestRecords, n \in FewerFields}
      \cup {CutOff(JSONstringify(s), n) : s \in TestRecords, n \in FewerFields}

\* await saveState(state)
TestSaveState ==
    /\ pc = "storageTest"
    /\ \E setItem \in {"resolved", "rejected"} :
          storage' = IF setItem = "resolved"
                     THEN JSONstringify(loadedState)
                     ELSE storage
    /\ pc' = "saved"
    /\ UNCHANGED <<now, today, loadedState, updatedState, newLog, state,
                   activations>>

\* const loaded = await loadState()
TestLoadState ==
    /\ pc \in {"storageTest", "saved"}
    /\ \E getItem \in {"resolved", "rejected"} :
          /\ updatedState' = loadState(getItem)
          /\ pc' = IF getItem = "resolved" THEN "loadResolved" ELSE "loadRejected"
    /\ UNCHANGED <<now, storage, today, loadedState, newLog, state, activations>>

InitStorage ==
    /\ now \in TestClocks
    /\ storage \in StoredTexts
    /\ loadedState \in TestRecords
    /\ pc = "storageTest"
    /\ today = NoDate
    /\ updatedState = Null
    /\ newLog = NoLog
    /\ state = Null
    /\ activations = 0

NextStorage ==
    \/ TestSaveState
    \/ TestLoadState

SpecStorage == InitStorage /\ [][NextStorage]_vars

(***************************************************************************)
(* Properties.                                                             *)
(***************************************************************************)
Stored == JSONparse(storage)

\* the activation in progress works on the record that is stored
LoadedStored == storage # Null /\ loadedState = JSONparse(storage)

\* C1: processCondition sets condition from daysSinceVisit =
\* getDaysDiff(lastVisitDate, today) alone, whatever the prior condition:
\* 0, 1 or 2 days gives healthy, 3 to 6 days weak, 7 or more days dead.
C1_ConditionFromDays ==
    pc = "conditionResult" =>
        LET days == getDaysDiff(loadedState.lastVisitDate, Today)
        IN  /\ days \in {0, 1, 2} => updatedState.condition = "healthy"
            /\ days \in {3, 4, 5, 6} => updatedState.condition = "weak"
            /\ days >= 7 => updatedState.condition = "dead"

\* a weak pet visited after one day is healthy again
C1_Witness ==
    /\ pc = "conditionResult"
    /\ loadedState.condition = "weak"
    /\ getDaysDiff(loadedState.lastVisitDate, Today) = 1
    /\ updatedState.condition = "healthy"

\* C2: dead is terminal: once the persisted condition is dead, it is dead in
\* every later state (stated for the activations that work on the stored record).
C2_DeadIsTerminal ==
    [][(LoadedStored /\ Stored.condition = "dead")
          => JSONparse(storage').condition = "dead"]_vars

C5_OnlyHealthyGrows ==
    pc = "growthResult" =>
        /\ (loadedState.condition \in {"weak", "dead"}
               /\ loadedState.lastGrowthDate # Today)
              => /\ updatedState.sizeFactor = loadedState.sizeFactor
                 /\ updatedState.lastGrowthDate = Today
        /\ updatedState.sizeFactor # loadedState.sizeFactor
              => loadedState.condition = "healthy"

\* a dead record not yet processed today comes back dated today, same size
C5_Witness ==
    /\ pc = "growthResult"
    /\ loadedState.condition = "dead"
    /\ loadedState.lastGrowthDate # Today
    /\ updatedState.lastGrowthDate = Today
    /\ updatedState.sizeFactor = loadedState.sizeFactor

\* C6 as claimed: for a healthy input whose lastGrowthDate differs from today
\* and every sample, sizeFactor * 1.001 <= sizeFactor' < sizeFactor * 1.003,
\* and lastGrowthDate is set to today.
C6_GrowthRange ==
    (pc = "growthResult" /\ loadedState.condition = "healthy"
        /\ loadedState.lastGrowthDate # Today)
       => /\ Times(loadedState.sizeFactor, Literal(1001)) <= updatedState.sizeFactor
          /\ updatedState.sizeFactor < Times(loadedState.sizeFactor, Literal(1003))
          /\ updatedState.lastGrowthDate = Today

\* C6 amended: for a healthy input whose lastGrowthDate differs from today and
\* every sample, sizeFactor' is sizeFactor times a rate from 1.001 to 1.003,
\* both ends included, so sizeFactor * 1.001 <= sizeFactor' <= sizeFactor * 1.003
\* and sizeFactor' > sizeFactor, and lastGrowthDate is set to today.
C6_GrowthRangeClosed ==
    (pc = "growthResult" /\ loadedState.condition = "healthy"
        /\ loadedState.lastGrowthDate # Today)
       => /\ \E rate \in Literal(1001)..Literal(1003) :
                updatedState.sizeFactor = Times(loadedState.sizeFactor, rate)
          /\ Times(loadedState.sizeFactor, Literal(1001)) <= updatedState.sizeFactor
          /\ updatedState.sizeFactor <= Times(loadedState.sizeFactor, Literal(1003))
          /\ updatedState.sizeFactor > loadedState.sizeFactor
          /\ updatedState.lastGrowthDate = Today

\* a healthy record has grown by the largest rate: the upper bound is attained
C6_Witness ==
    /\ pc = "growthResult"
    /\ loadedState.condition = "healthy"
    /\ loadedState.lastGrowthDate # Today
    /\ updatedState.lastGrowthDate = Today
    /\ updatedState.sizeFactor = Times(loadedState.sizeFactor, Literal(1003))

\* C7: processGrowth is idempotent within a day: an input whose lastGrowthDate
\* is today is returned unchanged whatever its condition, and applying
\* processGrowth to its own result on the same day returns that result.
C7_IdempotentWithinDay ==
    pc = "growthResult" =>
        /\ loadedState.lastGrowthDate = Today => updatedState = loadedState
        /\ \A k \in 0..(RandomSteps - 1) :
              processGrowth(updatedState, Today, k) = updatedState

\* the input is itself a result of today's growth and comes back unchanged
C7_Witness ==
    /\ pc = "growthResult"
    /\ loadedState.condition = "healthy"
    /\ loadedState.sizeFactor = Times(Literal(1000), Literal(1003))
    /\ loadedState.lastGrowthDate = Today
    /\ updatedState = loadedState

\* C8: when processGrowth returns at the end of a processing pass, both
\* lastVisitDate and lastGrowthDate equal today's date.
C8_DatesAreToday ==
    [][(pc = "processGrowth" /\ pc' = "generateDailyLog")
          => /\ updatedState'.lastVisitDate = Today
             /\ updatedState'.lastGrowthDate = Today]_vars

Pool(s) ==
    IF s.condition = "dead" THEN {DEAD_MESSAGE}
    ELSE IF s.condition = "weak" THEN Range(WEAK_MESSAGES)
    ELSE IF getDaysDiff(s.startDate, s.lastVisitDate) = 0 THEN {FIRST_DAY_MESSAGE}
    ELSE Range(HEALTHY_MESSAGES)

\* C9: generateDailyLog returns a message of the pool its input selects: the
\* dead message when dead, one of the 3 weak messages when weak, the first-day
\* message when healthy on the start date, one of the 5 healthy messages when
\* healthy otherwise; every sample picks an index inside the pool.
C9_LogFromPool ==
    pc = "logResult" =>
        /\ newLog \in Pool(loadedState)
        /\ \A k \in 0..(RandomSteps - 1) :
              generateDailyLog(loadedState, k) \in Pool(loadedState)
        /\ Cardinality(Range(WEAK_MESSAGES)) = 3
        /\ Cardinality(Range(HEALTHY_MESSAGES)) = 5
        /\ \A k \in 0..(RandomSteps - 1) :
              /\ (k * 3) \div RandomSteps \in 0..2
              /\ (k * 5) \div RandomSteps \in 0..4

\* a healthy record visited on its start date gets the first-day message
C9_Witness ==
    /\ pc = "logResult"
    /\ loadedState.condition = "healthy"
    /\ loadedState.startDate = loadedState.lastVisitDate
    /\ newLog = FIRST_DAY_MESSAGE

Pools ==
    << {DEAD_MESSAGE}, Range(WEAK_MESSAGES),
       {FIRST_DAY_MESSAGE}, Range(HEALTHY_MESSAGES) >>

\* C10 as claimed: the four message pools are pairwise disjoint, so a returned
\* log belongs to exactly one pool.
C10_PoolsDisjoint ==
    pc = "logResult" =>
        /\ \A i, j \in 1..4 : i # j => Pools[i] \cap Pools[j] = {}
        /\ Cardinality({i \in 1..4 : newLog \in Pools[i]}) = 1

\* C10 amended: the pools are pairwise disjoint except that the weak and the
\* healthy pool share exactly one message; the dead message and the first-day
\* message determine the case that produced them, every other log determines
\* it up to weak or healthy after the first day.
C10_PoolsShareOne ==
    /\ \A i, j \in 1..4 :
          (i # j /\ {i, j} # {2, 4}) => Pools[i] \cap Pools[j] = {}
    /\ Pools[2] \cap Pools[4] = {WEAK_MESSAGES[1]}
    /\ pc = "logResult" =>
          /\ newLog = DEAD_MESSAGE <=> loadedState.condition = "dead"
          /\ newLog = FIRST_DAY_MESSAGE
                <=> /\ loadedState.condition = "healthy"
                    /\ loadedState.startDate = loadedState.lastVisitDate
          /\ newLog \in Pools[2] \ Pools[4] => loadedState.condition = "weak"
          /\ newLog \in Pools[4] \ Pools[2] => loadedState.condition = "healthy"

\* a weak record gets the message that the healthy pool holds too
C10_Witness ==
    /\ pc = "logResult"
    /\ loadedState.condition = "weak"
    /\ newLog \in Range(HEALTHY_MESSAGES)

\* C11: on each activation latestLog is overwritten only if the updated
\* lastVisitDate equals the activation's calendar date, and the log is
\* refreshed once per calendar day: an activation on a day on which the stored
\* record was already visited stores the latestLog it loaded.
C11_LogOncePerDay ==
    [][ /\ (pc = "generateDailyLog" /\ pc' = "setState"
               /\ updatedState'.latestLog # updatedState.latestLog)
              => updatedState.lastVisitDate = today
        /\ (pc = "saveState" /\ pc' = "idle" /\ LoadedStored
               /\ Stored.lastVisitDate = today)
              => JSONparse(storage').latestLog = Stored.latestLog
      ]_vars

\* C12: first activation end to end: when no persisted record exists, an
\* activation arrives at its save with condition healthy, sizeFactor 1.0 and
\* latestLog equal to the fixed first-day message, and shows that record.
C12_FirstActivation ==
    (pc = "saveState" /\ storage = Null)
       => /\ updatedState.condition = "healthy"
          /\ updatedState.sizeFactor = Literal(1000)
          /\ updatedState.latestLog = FIRST_DAY_MESSAGE
          /\ state = updatedState

\* the text of an object that has the six fields of a record
HasAllFields(text) ==
    Parseable(text) /\ {text[i][1] : i \in 1..Len(text)} = Range(Keys)

\* C13: loadState never propagates an error: when the stored record is absent,
\* when reading it fails, when it is unparseable or when it lacks fields,
\* loadState returns a freshly created initial state; only a well-formed stored
\* record is returned as stored, and a record that was saved is loaded back.
C13_LoadNeverPropagates ==
    pc \in {"loadResolved", "loadRejected"} =>
        IF pc = "loadResolved" /\ storage # Null /\ HasAllFields(storage)
        THEN /\ JSONstringify(updatedState) = storage
             /\ storage = JSONstringify(loadedState) => updatedState = loadedState
        ELSE updatedState = createInitialState(Today)

StepOrder ==
    { <<"idle", "loadState">>, <<"loadState", "today">>,
      <<"today", "processCondition">>, <<"processCondition", "processGrowth">>,
      <<"processGrowth", "generateDailyLog">>, <<"generateDailyLog", "setState">>,
      <<"setState", "saveState">>, <<"saveState", "idle">> }

\* C14: in every activation the steps occur in the order load,
\* processCondition, processGrowth, generateDailyLog, save; the transforms run
\* on the record the completed load returned; the stored text changes only in
\* the one save step that ends the activation, to the text of the final
\* transformed record, which is the record shown; a failing save ends the
\* activation as well and leaves the record shown unchanged.
C14_StepOrder ==
    [][ /\ pc' # pc => <<pc, pc'>> \in StepOrder
        /\ (pc \in {"processCondition", "processGrowth", "generateDailyLog"}
               /\ pc' # pc)
              => loadedState # Null /\ loadedState' = loadedState
        /\ storage' # storage
              => /\ pc = "saveState" /\ pc' = "idle"
                 /\ storage' = JSONstringify(updatedState)
        /\ (pc = "saveState" /\ pc' = "idle")
              => /\ state = updatedState
                 /\ state' = state
                 /\ storage' \in {storage, JSONstringify(updatedState)}
      ]_vars

\* an activation has ended with a failed save: nothing is stored and the
\* transformed record is shown
C14_Witness ==
    /\ pc = "idle"
    /\ storage = Null
    /\ state # Null
    /\ state.lastVisitDate = Today

\* C15: within a single activation every use of "today" sees the same calendar
\* date: the date createInitialState gave a fresh record, the date
\* processCondition wrote to lastVisitDate and the date processGrowth left in
\* lastGrowthDate all equal the date initializeState compares with, also when
\* the calendar day changes while the activation is in progress.
C15_OneToday ==
    /\ (pc = "processCondition" /\ storage = Null)
          => loadedState.startDate = today
    /\ pc \in {"processGrowth", "generateDailyLog"}
          => updatedState.lastVisitDate = today
    /\ pc = "generateDailyLog"
          => updatedState.lastGrowthDate = today

\* C16: createInitialState returns a record whose startDate, lastVisitDate and
\* lastGrowthDate all equal the creation date, with sizeFactor 1.0, condition
\* healthy and latestLog the fixed initial message, and no other field.
C16_InitialState ==
    pc = "created" =>
        /\ updatedState.startDate = ToISODate(now)
        /\ updatedState.lastVisitDate = ToISODate(now)
        /\ updatedState.lastGrowthDate = ToISODate(now)
        /\ updatedState.sizeFactor = Literal(1000)
        /\ updatedState.condition = "healthy"
        /\ updatedState.latestLog = INITIAL_LOG
        /\ DOMAIN updatedState = Range(Keys)

\* a record created in the afternoon of the last day
C16_Witness ==
    /\ pc = "created"
    /\ now = MaxDay * MsPerDay + HalfDay
    /\ updatedState.startDate = MaxDay
    /\ updatedState.lastGrowthDate = MaxDay

\* C17: getDaysDiff is symmetric and zero on equal dates: for all calendar
\* dates a and b, getDaysDiff(a, b) = getDaysDiff(b, a) = the absolute number
\* of days between them and getDaysDiff(a, a) = 0; hence processCondition
\* classifies a lastVisitDate d days after today exactly as one d days before
\* today.
C17_DaysDiffSymmetric ==
    pc = "conditionResult" =>
        /\ \A a, b \in TestDates \cup {loadedState.lastVisitDate, Today} :
              /\ getDaysDiff(a, b) = getDaysDiff(b, a)
              /\ getDaysDiff(a, b) = Abs(b - a)
              /\ getDaysDiff(a, a) = 0
        /\ LET d == loadedState.lastVisitDate - Today
               mirrored == [loadedState EXCEPT !.lastVisitDate = Today - d]
           IN  /\ processCondition(mirrored, Today) = updatedState
               /\ updatedState.condition
                     = IF Abs(d) >= DeadDays THEN "dead"
                       ELSE IF Abs(d) >= WeakDays THEN "weak"
                       ELSE "healthy"

\* a record whose lastVisitDate lies at least three days after today comes
\* back weak, as one visited as many days before today does
C17_Witness ==
    /\ pc = "conditionResult"
    /\ loadedState.lastVisitDate >= Today + WeakDays
    /\ loadedState.condition = "healthy"
    /\ updatedState.condition = "weak"

\* the fields of record t outside the set changed equal those of record s
SameExcept(s, t, changed) ==
    /\ DOMAIN t = DOMAIN s
    /\ \A f \in DOMAIN s \ changed : t[f] = s[f]

\* the frame of the three transforms and of the log overwrite, over the steps
\* of an activation
TransformFrames ==
    /\ (pc = "processCondition" /\ pc' = "processGrowth")
          => /\ SameExcept(loadedState, updatedState', {"condition", "lastVisitDate"})
             /\ loadedState' = loadedState
    /\ (pc = "processGrowth" /\ pc' = "generateDailyLog")
          => SameExcept(updatedState, updatedState', {"sizeFactor", "lastGrowthDate"})
    /\ (pc = "generateDailyLog" /\ pc' = "setState")
          => /\ SameExcept(updatedState, updatedState', {"latestLog"})
             /\ updatedState'.latestLog \in {updatedState.latestLog, newLog'}

\* C18 as claimed: processCondition changes only condition and lastVisitDate,
\* processGrowth only sizeFactor and lastGrowthDate, generateDailyLog no field
\* of its input; consequently the stored startDate keeps its creation value
\* after any sequence of activations.
C18_StartDateKept ==
    [][ /\ TransformFrames
        /\ (pc = "saveState" /\ pc' = "idle" /\ storage # Null)
              => JSONparse(storage').startDate = Stored.startDate
      ]_vars

\* C18 amended: the same frames; consequently startDate keeps its creation
\* value over the activations that work on the stored record.
C18_StartDateKeptLoaded ==
    [][ /\ TransformFrames
        /\ (pc = "saveState" /\ pc' = "idle" /\ LoadedStored)
              => JSONparse(storage').startDate = Stored.startDate
      ]_vars

\* an activation on a later day has grown the stored record and is about to
\* save it with the startDate it loaded
C18_Witness ==
    /\ pc = "saveState"
    /\ LoadedStored
    /\ updatedState.lastVisitDate > loadedState.lastVisitDate
    /\ updatedState.sizeFactor > loadedState.sizeFactor
    /\ updatedState.latestLog # loadedState.latestLog
    /\ updatedState.startDate = Stored.startDate
    /\ updatedState.startDate < updatedState.lastVisitDate

\* an activation that computes weak or dead sets lastGrowthDate to the day of
\* its processGrowth without growing
WeakDayIsCredited ==
    (pc = "processGrowth" /\ pc' = "generateDailyLog"
        /\ updatedState.condition \in {"weak", "dead"})
       => /\ updatedState'.sizeFactor = updatedState.sizeFactor
          /\ updatedState'.lastGrowthDate = ToISODate(now)

\* C19 as claimed: a calendar day whose first activation computes weak or dead
\* yields no growth at all: that activation sets lastGrowthDate to today
\* without growing, so every later activation on the same day leaves the
\* stored sizeFactor unchanged.
C19_NoGrowthThatDay ==
    [][ /\ WeakDayIsCredited
        /\ (pc = "saveState" /\ pc' = "idle" /\ storage # Null
               /\ Stored.condition \in {"weak", "dead"}
               /\ Stored.lastVisitDate = ToISODate(now))
              => JSONparse(storage').sizeFactor = Stored.sizeFactor
      ]_vars

\* C19 amended: that activation sets lastGrowthDate to today without growing;
\* a record stored as visited today is stored as credited today, so no later
\* activation on the same day grows the record: one that works on
\* the stored record leaves sizeFactor unchanged, also when the stored record
\* is weak or dead and its processCondition computes healthy, and no
\* activation of that day stores a larger sizeFactor.
C19_NoGrowthThatDayLoaded ==
    [][ /\ WeakDayIsCredited
        /\ (pc = "saveState" /\ pc' = "idle" /\ storage # Null
               /\ Stored.lastVisitDate = ToISODate(now))
              => Stored.lastGrowthDate = ToISODate(now)
        /\ (pc = "saveState" /\ pc' = "idle" /\ storage # Null
               /\ Stored.lastGrowthDate = ToISODate(now))
              => /\ JSONparse(storage').sizeFactor <= Stored.sizeFactor
                 /\ updatedState.sizeFactor = loadedState.sizeFactor
                 /\ LoadedStored
                       => JSONparse(storage').sizeFactor = Stored.sizeFactor
                 /\ (LoadedStored /\ Stored.lastVisitDate = ToISODate(now))
                       => updatedState.condition = "healthy"
      ]_vars

\* the stored record was found weak earlier today; a later activation of the
\* same day has computed healthy and is about to save the sizeFactor it loaded
C19_Witness ==
    /\ pc = "saveState"
    /\ LoadedStored
    /\ Stored.condition = "weak"
    /\ Stored.lastVisitDate = ToISODate(now)
    /\ Stored.lastGrowthDate = ToISODate(now)
    /\ updatedState.condition = "healthy"
    /\ updatedState.sizeFactor = Stored.sizeFactor

====
